---- MODULE Spec2Model ----
(***************************************************************************)
(* The agent control loop of web-agentic (src/agentic/agent.py): the       *)
(* LangGraph state machine generate -> should_continue -> tool -> generate *)
(* built by create_agent, and run_agent, which seeds it and extracts the   *)
(* response.  The language model and the arguments it sends are the        *)
(* environment; everything else is translated from the source.             *)
(***************************************************************************)
EXTENDS Integers, Sequences, FiniteSets, TLC

VARIABLES
    pc,          \* "idle" | "generate" | "tool" | "done" | "error": where the run stands
    failure,     \* which call raised out of run_agent: "none" | "model" | "tool"
    messages,    \* state["messages"] of the current run; at "done" the returned list
    step_count,  \* state["step_count"]
    max_steps,   \* state["max_steps"]
    response,    \* the response string run_agent returned (NotReturned before that)
    runs,        \* history: number of run_agent calls made so far
    modelCalls,  \* history: llm_with_tools.invoke calls issued in the current run
    rounds,      \* history: call_tool nodes completed in the current run
    llm_input,   \* history: the message list handed to the last model call of the run
    allTools,    \* history: every model answer of the current run carried tool calls
    invoked,     \* history: tool invocations of the current run, in order
    lastRound,   \* history: what the last call_tool node of the run saw and appended
    shell,       \* the caller's loop (main): "prompt" | "turn" | "exited"
    printed,     \* what the caller printed last: "banner" | "agent" | "response" | "error" | "goodbye"
    MCP_ENABLED,   \* Config.MCP_ENABLED
    MCP_AVAILABLE, \* mcp.client.MCP_AVAILABLE: whether the import of the mcp package worked
    reg_pc,        \* the registry: "static" | "start" | "ready" | "raised"
    provider,      \* history: how the external tool provider answered get_all_tools
    tools,         \* create_agent's tools, the list get_all_tools returned
    executed,      \* history: the tools that lookups by name have invoked
    environ,         \* os.environ: LLM_TYPE, OPENAI_API_KEY and GOOGLE_API_KEY
    LLM_TYPE,        \* Config.LLM_TYPE
    OPENAI_API_KEY,  \* Config.OPENAI_API_KEY
    GOOGLE_API_KEY,  \* Config.GOOGLE_API_KEY
    genai_installed, \* whether langchain_google_genai can be imported
    config_error,    \* history: the ValueError of Config.validate, "none" without one
    exit_code,       \* the exit status of the process: 0 unless a failure has set it
    sessions         \* the states of the invocations of one agent that are in flight together

vars == <<pc, failure, messages, step_count, max_steps, response, runs, modelCalls,
          rounds, llm_input, allTools, invoked, lastRound, shell, printed>>

registry_vars == <<MCP_ENABLED, MCP_AVAILABLE, reg_pc, provider, tools, executed>>

session_vars == <<sessions>>

config_vars == <<environ, LLM_TYPE, OPENAI_API_KEY, GOOGLE_API_KEY, genai_installed, config_error,
                 exit_code>>

(***************************************************************************)
(* Bounds of the model.                                                    *)
(***************************************************************************)
MaxBudget == 2      \* max_steps is drawn from -1 .. MaxBudget
MaxRuns == 2        \* run_agent calls per behaviour
MaxPrior == 3       \* longest returned sequence a caller feeds back as history

(***************************************************************************)
(* Messages (langchain_core.messages), with one record shape for all four  *)
(* classes.                                                                *)
(***************************************************************************)
SystemMessage(c) == [type |-> "system", content |-> c, tool_calls |-> <<>>, tool_call_id |-> ""]
HumanMessage(c) == [type |-> "human", content |-> c, tool_calls |-> <<>>, tool_call_id |-> ""]
AIMessage(c, tcs) == [type |-> "ai", content |-> c, tool_calls |-> tcs, tool_call_id |-> ""]
ToolMessage(c, id) == [type |-> "tool", content |-> c, tool_calls |-> <<>>, tool_call_id |-> id]

SYSTEM_PROMPT == "You are a helpful AI assistant with access to tools."
NO_RESPONSE == "No response generated."
NotReturned == "<run_agent has not returned>"

(***************************************************************************)
(* The tools of src/agentic/tools.py.  Arguments are the value of the      *)
(* tool's single string parameter; InvalidArgs stands for an argument      *)
(* mapping that does not fit the tool's schema, on which BaseTool.invoke   *)
(* raises before the function body runs.                                   *)
(***************************************************************************)
TOOLS == <<"search", "calculate", "read_file">>
InvalidArgs == "<args not matching the schema>"

Returned(v) == [raised |-> FALSE, value |-> v]
Raised(v) == [raised |-> TRUE, value |-> v]

search(query) == Returned("Search results for '" \o query \o "': [Mock result 1, Mock result 2]")

calculate(expression) ==
    CASE expression = "2+2" -> Returned("4")
      [] expression = "1/0" -> Returned("Error calculating '1/0': division by zero")
      [] OTHER -> Returned("Error calculating '" \o expression \o "': invalid syntax")

read_file(filepath) ==
    CASE filepath = "notes.txt" -> Returned("file contents")
      [] OTHER -> Returned("Error: File '" \o filepath \o "' not found.")

\* tool.invoke(tool_args)
ToolInvoke(name, args) ==
    IF args = InvalidArgs THEN Raised("ValidationError")
    ELSE CASE name = "search" -> search(args)
           [] name = "calculate" -> calculate(args)
           [] name = "read_file" -> read_file(args)

\* tool_map = {tool.name: tool for tool in TOOLS}; tool_name in tool_map
tool_map == {TOOLS[i] : i \in DOMAIN TOOLS}


(***************************************************************************)
(* The environment: what the model may answer and what the caller passes.  *)
(***************************************************************************)
Req(n, a) == [name |-> n, args |-> a]

\* A model answer: whether it has text, and its tool-call list (the
\* identifiers are added by ModelAnswer).
Shape(t, c) == [text |-> t, calls |-> c]

\* The answers the model may give to a call: a final answer, an empty message,
\* one request (with and without text), the two-request round of the spec's
\* failure-isolation scenario, rounds naming a tool that is not registered (with
\* and without a registered sibling), and a round whose first request carries
\* arguments the tool's schema rejects.
ResponseShapes ==
    { Shape(TRUE, <<>>),
      Shape(FALSE, <<>>),
      Shape(FALSE, <<Req("calculate", "2+2")>>),
      Shape(TRUE, <<Req("calculate", "2+2")>>),
      Shape(TRUE, <<Req("calculate", "1/0"), Req("search", "x")>>),
      Shape(FALSE, <<Req("nosuch", "x"), Req("search", "x")>>),
      Shape(FALSE, <<Req("nosuch", "x")>>),
      Shape(TRUE, <<Req("calculate", InvalidArgs), Req("read_file", "missing.txt")>>) }

UserInputs == {"What is 2+2?"}

\* Histories a caller passes as previous_messages on its own account.
PriorHistories == { <<>>, <<SystemMessage("Be terse.")>> }

Budgets == (0 - 1) .. MaxBudget

\* The model gives every request an identifier of its own: the position of the
\* answer in the conversation and of the request in the answer.
CallId(at, k) == "call_" \o ToString(at) \o "_" \o ToString(k)

\* The AIMessage the model returns as message number `at` of the conversation.
ModelAnswer(shape, at) ==
    AIMessage(IF shape.text THEN "answer " \o ToString(at) ELSE "",
              [k \in DOMAIN shape.calls |->
                  [id |-> CallId(at, k), name |-> shape.calls[k].name,
                   args |-> shape.calls[k].args]])

(***************************************************************************)
(* create_agent: the nodes and the conditional edge of the graph.          *)
(***************************************************************************)
\* Variants of should_continue with a slip in the budget test: off by one,
\* missing, and skipped for the first round.
should_continue_off_by_one(msgs, sc, ms) ==
    LET last_message == msgs[Len(msgs)] IN
    IF sc > ms THEN "end"
    ELSE IF last_message.type = "ai"
         THEN IF last_message.tool_calls # <<>> THEN "call_tool" ELSE "end"
         ELSE "end"

should_continue_no_budget(msgs, sc, ms) ==
    LET last_message == msgs[Len(msgs)] IN
    IF last_message.type = "ai"
    THEN IF last_message.tool_calls # <<>> THEN "call_tool" ELSE "end"
    ELSE "end"

should_continue_late_budget(msgs, sc, ms) ==
    LET last_message == msgs[Len(msgs)] IN
    IF last_message.type = "ai"
    THEN IF last_message.tool_calls # <<>>
         THEN IF sc > 0 /\ sc >= ms THEN "end" ELSE "call_tool"
         ELSE "end"
    ELSE "end"

\* should_continue(state)
should_continue(msgs, sc, ms) ==
    LET last_message == msgs[Len(msgs)] IN
    IF sc >= ms THEN "end"
    ELSE IF last_message.type = "ai"
         THEN IF last_message.tool_calls # <<>> THEN "call_tool" ELSE "end"
         ELSE "end"

\* A variant that files the result under the tool's name, not the request's id.
ToolResultMessage_by_name(tool_call, result) == ToolMessage(result, tool_call.name)

\* The ToolMessage call_tool appends for one tool call whose invocation returned.
ToolResultMessage(tool_call, result) == ToolMessage(result, tool_call.id)

\* The loop of call_tool over last_message.tool_calls: the ToolMessages collected,
\* the calls whose tool was invoked, and whether an invocation raised (which ends
\* the loop and the node: call_tool has no try/except).
RECURSIVE ExecuteToolCalls(_)
ExecuteToolCalls(tool_calls) ==
    IF tool_calls = <<>>
    THEN [tool_messages |-> <<>>, invoked |-> <<>>, raised |-> FALSE]
    ELSE LET tool_call == Head(tool_calls)
             rest == ExecuteToolCalls(Tail(tool_calls))
         IN IF tool_call.name \in tool_map
            THEN LET result == ToolInvoke(tool_call.name, tool_call.args) IN
                 IF result.raised
                 THEN [tool_messages |-> <<>>, invoked |-> <<tool_call>>, raised |-> TRUE]
                 ELSE [tool_messages |-> <<ToolResultMessage(tool_call, result.value)>>
                                            \o rest.tool_messages,
                       invoked |-> <<tool_call>> \o rest.invoked,
                       raised |-> rest.raised]
            ELSE rest

\* A variant that counts tool calls, not rounds.
StepAfterRound_per_call(sc, tool_calls) == sc + Len(tool_calls)

\* call_tool's "step_count": state.get("step_count", 0) + 1
StepAfterRound(sc, tool_calls) == sc + 1

\* A variant in which the model call counts as a step too.
StepAfterGenerate_counts(sc) == sc + 1

\* generate_response's "step_count": state.get("step_count", 0)
StepAfterGenerate(sc) == sc

\* Variants of ModelInput: one that hands the model the conversation without
\* its ToolMessages, one that prepends the prompt without looking for a
\* SystemMessage, and one that looks for it in the last message only.
ModelInput_without_results(msgs) ==
    LET has_system == \E i \in DOMAIN msgs : msgs[i].type = "system"
        kept == SelectSeq(msgs, LAMBDA m : m.type # "tool")
    IN IF ~has_system THEN <<SystemMessage(SYSTEM_PROMPT)>> \o kept ELSE kept

ModelInput_always_prepends(msgs) == <<SystemMessage(SYSTEM_PROMPT)>> \o msgs

ModelInput_looks_at_last(msgs) ==
    LET has_system == msgs[Len(msgs)].type = "system" IN
    IF ~has_system THEN <<SystemMessage(SYSTEM_PROMPT)>> \o msgs ELSE msgs

\* generate_response: the list handed to llm_with_tools.invoke
ModelInput(msgs) ==
    LET has_system == \E i \in DOMAIN msgs : msgs[i].type = "system" IN
    IF ~has_system THEN <<SystemMessage(SYSTEM_PROMPT)>> \o msgs ELSE msgs

\* A variant without the reducer: the update overwrites the list.
add_messages_overwrites(left, right) == right

\* The add_messages reducer of AgentState.messages, for messages without a
\* colliding id: the update is appended.
add_messages(left, right) == left \o right

(***************************************************************************)
(* run_agent                                                               *)
(***************************************************************************)
\* A variant of InitialMessages that stores the system prompt in a conversation
\* that has no SystemMessage.
InitialMessages_with_prompt(previous_messages, user_input) ==
    IF \E i \in DOMAIN previous_messages : previous_messages[i].type = "system"
    THEN previous_messages \o <<HumanMessage(user_input)>>
    ELSE <<SystemMessage(SYSTEM_PROMPT)>> \o previous_messages \o <<HumanMessage(user_input)>>

\* messages = list(previous_messages) if previous_messages else []; append the input
InitialMessages(previous_messages, user_input) ==
    previous_messages \o <<HumanMessage(user_input)>>

\* The scan of reversed(updated_messages) for the response.
RECURSIVE ExtractResponse(_)
ExtractResponse(updated_messages) ==
    IF updated_messages = <<>> THEN NO_RESPONSE
    ELSE LET message == updated_messages[Len(updated_messages)] IN
         IF message.type = "ai" /\ message.content # ""
         THEN message.content
         ELSE ExtractResponse(SubSeq(updated_messages, 1, Len(updated_messages) - 1))

NoRound == [calls |-> <<>>, appended |-> <<>>, before |-> 0]

\* The provider was not asked for its tools.
NoBody == [is_list |-> TRUE, items |-> <<>>]
NotContacted == [health |-> "none", status |-> "none", body |-> NoBody]

\* The agent is created and no run has started.
AgentIdle ==
    /\ pc = "idle"
    /\ failure = "none"
    /\ messages = <<>>
    /\ step_count = 0
    /\ max_steps = 0
    /\ response = NotReturned
    /\ runs = 0
    /\ modelCalls = 0
    /\ rounds = 0
    /\ llm_input = <<>>
    /\ allTools = TRUE
    /\ invoked = <<>>
    /\ lastRound = NoRound
    /\ shell = "prompt"
    /\ printed = "banner"

\* A configuration that Config.validate accepts, after a startup without error.
ConfigValid ==
    /\ environ = [LLM_TYPE |-> "<unset>", OPENAI_API_KEY |-> "sk-test", GOOGLE_API_KEY |-> "<unset>"]
    /\ LLM_TYPE = "gpt"
    /\ OPENAI_API_KEY = "sk-test"
    /\ GOOGLE_API_KEY = ""
    /\ genai_installed = FALSE
    /\ config_error = "none"
    /\ exit_code = 0

\* No registry is built: the tool list is the fixed TOOLS.
RegistryStatic ==
    /\ MCP_ENABLED = FALSE
    /\ MCP_AVAILABLE = FALSE
    /\ reg_pc = "static"
    /\ provider = NotContacted
    /\ tools = <<>>
    /\ executed = <<>>

\* No invocation of the agent is in flight.
NoSessions == <<>>

\* The agent of the package agentic, whose tool list is the fixed TOOLS.
Init ==
    /\ AgentIdle
    /\ ConfigValid
    /\ RegistryStatic
    /\ sessions = NoSessions

\* What the caller may pass as previous_messages: a history of its own, or the
\* sequence the run before returned.
Seeds ==
    PriorHistories \cup
    (IF pc = "done" /\ Len(messages) <= MaxPrior THEN {messages} ELSE {})

\* The caller takes a question at its prompt and calls run_agent, here up to
\* agent.invoke(initial_state): the graph is at its entry point.
RunAgent(user_input, previous_messages, budget) ==
    /\ pc \in {"idle", "done", "error"}
    /\ shell = "prompt"
    /\ shell' = "turn"
    /\ printed' = "agent"
    /\ UNCHANGED <<registry_vars, config_vars, session_vars>>
    /\ runs < MaxRuns
    /\ messages' = InitialMessages(previous_messages, user_input)
    /\ step_count' = 0
    /\ max_steps' = budget
    /\ pc' = "generate"
    /\ failure' = "none"
    /\ response' = NotReturned
    /\ runs' = runs + 1
    /\ modelCalls' = 0
    /\ rounds' = 0
    /\ llm_input' = <<>>
    /\ allTools' = TRUE
    /\ invoked' = <<>>
    /\ lastRound' = NoRound

\* The node generate_response with the model answering, the conditional edge
\* should_continue after it and, on "end", the rest of run_agent.
GenerateResponse(shape) ==
    /\ pc = "generate"
    /\ LET answer == ModelAnswer(shape, Len(messages) + 1)
           updated_messages == add_messages(messages, <<answer>>)
           sc == StepAfterGenerate(step_count)
           route == should_continue(updated_messages, sc, max_steps)
       IN /\ llm_input' = ModelInput(messages)
          /\ modelCalls' = modelCalls + 1
          /\ messages' = updated_messages
          /\ step_count' = sc
          /\ allTools' = (allTools /\ shape.calls # <<>>)
          /\ IF route = "call_tool"
             THEN /\ pc' = "tool"
                  /\ UNCHANGED <<response, shell, printed>>
             ELSE /\ pc' = "done"
                  /\ response' = ExtractResponse(updated_messages)
                  /\ shell' = "prompt"
                  /\ printed' = "response"
    /\ UNCHANGED <<failure, max_steps, runs, rounds, invoked, lastRound>>
    /\ UNCHANGED <<registry_vars, config_vars, session_vars>>

\* A variant of GenerateFails in which the node catches the exception and ends
\* the run with an empty answer.
GenerateFails_swallowed ==
    /\ pc = "generate"
    /\ llm_input' = ModelInput(messages)
    /\ modelCalls' = modelCalls + 1
    /\ pc' = "done"
    /\ failure' = "model"
    /\ messages' = add_messages(messages, <<AIMessage("", <<>>)>>)
    /\ response' = ExtractResponse(messages')
    /\ shell' = "prompt"
    /\ printed' = "response"
    /\ UNCHANGED <<step_count, max_steps, runs, rounds, allTools, invoked, lastRound>>
    /\ UNCHANGED <<registry_vars, config_vars, session_vars>>

\* The node generate_response with llm_with_tools.invoke raising: nothing catches
\* the exception before the caller of run_agent, whose handler prints the error
\* and goes back to its prompt.
GenerateFails ==
    /\ pc = "generate"
    /\ llm_input' = ModelInput(messages)
    /\ modelCalls' = modelCalls + 1
    /\ pc' = "error"
    /\ failure' = "model"
    /\ shell' = "prompt"
    /\ printed' = "error"
    /\ UNCHANGED <<messages, step_count, max_steps, response, runs, rounds,
                   allTools, invoked, lastRound>>
    /\ UNCHANGED <<registry_vars, config_vars, session_vars>>

\* The node call_tool, and the edge back to generate.  An invocation that raises
\* leaves the node by the exception: no state update is returned.
CallTool ==
    /\ pc = "tool"
    /\ LET last_message == messages[Len(messages)]
           done == ExecuteToolCalls(last_message.tool_calls)
       IN /\ invoked' = invoked \o [i \in DOMAIN done.invoked |->
                                      [call |-> done.invoked[i], step |-> step_count,
                                       budget |-> max_steps]]
          /\ IF done.raised
             THEN /\ pc' = "error"
                  /\ failure' = "tool"
                  /\ shell' = "prompt"
                  /\ printed' = "error"
                  /\ UNCHANGED <<messages, step_count, rounds, lastRound>>
             ELSE /\ pc' = "generate"
                  /\ failure' = failure
                  /\ UNCHANGED <<shell, printed>>
                  /\ messages' = add_messages(messages, done.tool_messages)
                  /\ step_count' = StepAfterRound(step_count, last_message.tool_calls)
                  /\ rounds' = rounds + 1
                  /\ lastRound' = [calls |-> last_message.tool_calls,
                                   appended |-> done.tool_messages,
                                   before |-> Len(messages)]
    /\ UNCHANGED <<max_steps, response, runs, modelCalls, llm_input, allTools>>
    /\ UNCHANGED <<registry_vars, config_vars, session_vars>>

\* The caller leaves its loop at the prompt (quit, exit, q or an interrupt).
Quit ==
    /\ shell = "prompt"
    /\ shell' = "exited"
    /\ printed' = "goodbye"
    /\ UNCHANGED <<pc, failure, messages, step_count, max_steps, response, runs,
                   modelCalls, rounds, llm_input, allTools, invoked, lastRound>>
    /\ UNCHANGED <<registry_vars, config_vars, session_vars>>

Next ==
    \/ \E u \in UserInputs, p \in Seeds, b \in Budgets : RunAgent(u, p, b)
    \/ \E shape \in ResponseShapes : GenerateResponse(shape)
    \/ GenerateFails
    \/ CallTool
    \/ Quit

Spec == Init /\ [][Next]_vars

(***************************************************************************)
(* Startup: the configuration read from the environment, Config.validate   *)
(* and main up to the creation of the agent.                               *)
(***************************************************************************)
\* An environment variable that is not set.
Unset == "<unset>"

\* os.getenv(name, default)
Getenv(value, default) == IF value = Unset THEN default ELSE value

\* str.lower() on the values the environment is drawn from.
Lower(str) ==
    CASE str = "GPT" -> "gpt"
      [] str = "Gemini" -> "gemini"
      [] str = "OpenAI" -> "openai"
      [] OTHER -> str

\* What the environment may hold for LLM_TYPE and for the two keys.
EnvLLMTypes == {Unset, "", "gpt", "GPT", "openai", "OpenAI", "gemini", "Gemini", "claude"}
EnvKeys == {Unset, "", " ", "sk-test"}

\* A variant of Config.validate that does not look at the key for gemini.
Config_validate_gemini_unchecked(llm_type, openai_key, google_key) ==
    IF llm_type = "gpt" \/ llm_type = "openai"
    THEN IF openai_key = "" THEN "OPENAI_API_KEY required" ELSE "none"
    ELSE IF llm_type = "gemini" THEN "none"
    ELSE "Unsupported LLM_TYPE"

\* Config.validate: the ValueError it raises, "none" when it returns.
Config_validate(llm_type, openai_key, google_key) ==
    IF llm_type = "gpt" \/ llm_type = "openai"
    THEN IF openai_key = "" THEN "OPENAI_API_KEY required" ELSE "none"
    ELSE IF llm_type = "gemini"
         THEN IF google_key = "" THEN "GOOGLE_API_KEY required" ELSE "none"
    ELSE "Unsupported LLM_TYPE"

\* create_llm: the import of langchain_google_genai failing for gemini.
create_llm_raises(llm_type, installed) == llm_type = "gemini" /\ ~installed

\* The process has started: the class attributes of Config are read from the
\* environment, main has not run yet.
InitStartup ==
    /\ environ \in [LLM_TYPE : EnvLLMTypes, OPENAI_API_KEY : EnvKeys, GOOGLE_API_KEY : EnvKeys]
    /\ LLM_TYPE = Lower(Getenv(environ.LLM_TYPE, "gpt"))
    /\ OPENAI_API_KEY = Getenv(environ.OPENAI_API_KEY, "")
    /\ GOOGLE_API_KEY = Getenv(environ.GOOGLE_API_KEY, "")
    /\ genai_installed \in BOOLEAN
    /\ config_error = "none"
    /\ exit_code = 0
    /\ pc = "unstarted"
    /\ failure = "none"
    /\ messages = <<>>
    /\ step_count = 0
    /\ max_steps = 0
    /\ response = NotReturned
    /\ runs = 0
    /\ modelCalls = 0
    /\ rounds = 0
    /\ llm_input = <<>>
    /\ allTools = TRUE
    /\ invoked = <<>>
    /\ lastRound = NoRound
    /\ shell = "starting"
    /\ printed = "nothing"
    /\ MCP_ENABLED = FALSE
    /\ MCP_AVAILABLE = FALSE
    /\ reg_pc = "static"
    /\ provider = NotContacted
    /\ tools = <<>>
    /\ executed = <<>>
    /\ sessions = NoSessions

\* main up to its loop: a ValueError of Config.validate is printed and the process
\* exits with status 1; otherwise create_agent runs, and an exception of create_llm
\* ends the process with a traceback.
Startup ==
    /\ shell = "starting"
    /\ LET error == Config_validate(LLM_TYPE, OPENAI_API_KEY, GOOGLE_API_KEY) IN
          /\ config_error' = error
          /\ IF error # "none"
             THEN /\ printed' = "Configuration error"
                  /\ shell' = "exited"
                  /\ exit_code' = 1
                  /\ pc' = pc
             ELSE IF create_llm_raises(LLM_TYPE, genai_installed)
             THEN /\ printed' = "traceback"
                  /\ shell' = "exited"
                  /\ exit_code' = 1
                  /\ pc' = pc
             ELSE /\ printed' = "banner"
                  /\ shell' = "prompt"
                  /\ exit_code' = exit_code
                  /\ pc' = "idle"
    /\ UNCHANGED <<failure, messages, step_count, max_steps, response, runs, modelCalls,
                   rounds, llm_input, allTools, invoked, lastRound>>
    /\ UNCHANGED <<environ, LLM_TYPE, OPENAI_API_KEY, GOOGLE_API_KEY, genai_installed>>
    /\ UNCHANGED <<registry_vars, session_vars>>

NextStartup ==
    \/ Startup
    \/ Quit

SpecStartup == InitStartup /\ [][NextStartup]_<<vars, registry_vars, config_vars, session_vars>>

(***************************************************************************)
(* The tool registry of the package core: get_all_tools, the external tool *)
(* provider behind it, and the lookup by name in call_tool.                *)
(***************************************************************************)
MaxDescriptors == 2     \* tool descriptors in one answer of GET /tools
MaxLookups == 2         \* lookups by name that are recorded

\* A tool: its name, its description and the function that runs when it is
\* invoked (where it comes from, and the tool name its result reports).
Tool(n, d, origin, reports) ==
    [name |-> n, description |-> d, func |-> [origin |-> origin, reports |-> reports]]

\* The three built-in tools, in the order of the seed set.
get_builtin_tools ==
    <<Tool("search", "Search for information", "builtin", "search"),
      Tool("calculate", "Evaluate an expression", "builtin", "calculate"),
      Tool("read_file", "Read a file", "builtin", "read_file")>>

\* JSON values of a descriptor: a key that is missing, and null.
Absent == "<absent>"
Null == "<null>"

\* dict.get(key, default): the default only when the key is missing.
Get(tool_def, key, default) ==
    IF tool_def[key] = Absent THEN default ELSE tool_def[key]

Descriptor(n, d) == [is_dict |-> TRUE, name |-> n, description |-> d]
NotADict == [is_dict |-> FALSE, name |-> Absent, description |-> Absent]

\* What one element of the answer of GET /tools can be.
Descriptors ==
    { Descriptor("search", "Remote search"),
      Descriptor("remote", "A remote tool"),
      Descriptor(Absent, "No name"),
      Descriptor(Null, "Null name"),
      NotADict }

RECURSIVE DescriptorLists(_)
DescriptorLists(n) ==
    IF n = 0 THEN {<<>>}
    ELSE LET shorter == DescriptorLists(n - 1) IN
         shorter \cup {Append(l, d) : l \in {x \in shorter : Len(x) = n - 1}, d \in Descriptors}

\* A JSON answer that is no list (an object or a number).
NotAList == [is_list |-> FALSE, items |-> <<>>]
ListBody(l) == [is_list |-> TRUE, items |-> l]

\* How the provider answers: GET /health, then GET /tools and its JSON body.
ProviderOutcomes ==
    {[health |-> h, status |-> "none", body |-> NoBody] : h \in {"503", "raises"}}
    \cup {[health |-> "200", status |-> st, body |-> NoBody] : st \in {"500", "raises", "timeout"}}
    \cup {[health |-> "200", status |-> "200", body |-> b] :
              b \in {ListBody(l) : l \in DescriptorLists(MaxDescriptors)} \cup {NotAList}}

\* MCPClient.connect: the client is connected when GET /health answers 200; an
\* exception of the request is caught and leaves it unconnected.
MCPClient_connect(outcome) == outcome.health = "200"

\* MCPClient.get_tools: the JSON body of a 200 answer of GET /tools, and the empty
\* list when the client is not connected, on another status and on an exception
\* (a timeout of the request included).
MCPClient_get_tools(outcome) ==
    IF ~MCPClient_connect(outcome) THEN NoBody
    ELSE IF outcome.status = "200" THEN outcome.body
    ELSE NoBody

\* StructuredTool.from_function raises for a name that is not a string.
ConversionFails(tool_def) == Get(tool_def, "name", "mcp_tool") = Null

\* The loop of get_mcp_tools over tool_defs: a descriptor becomes a tool, one whose
\* conversion raises is skipped with a warning; on an element that is no dict the
\* handler of the warning raises itself (tool_def.get), which ends the function.
\* tool_func reads tool_def when it is called, after the loop: every converted tool
\* reports the name of the last element, last_def.
RECURSIVE ConvertTools(_, _)
ConvertTools(tool_defs, last_def) ==
    IF tool_defs = <<>> THEN [raised |-> FALSE, value |-> <<>>]
    ELSE LET tool_def == Head(tool_defs) IN
         IF ~tool_def.is_dict THEN [raised |-> TRUE, value |-> <<>>]
         ELSE LET rest == ConvertTools(Tail(tool_defs), last_def) IN
              IF rest.raised THEN rest
              ELSE IF ConversionFails(tool_def) THEN rest
              ELSE [raised |-> FALSE,
                    value |-> <<Tool(Get(tool_def, "name", "mcp_tool"),
                                     Get(tool_def, "description", ""),
                                     "mcp",
                                     Get(last_def, "name", "unknown"))>> \o rest.value]

\* get_mcp_tools: no tools without the mcp package; the fetch with its exceptions
\* caught; then the conversion, where iterating a body that is no list raises.
get_mcp_tools(available, outcome) ==
    IF ~available THEN [raised |-> FALSE, value |-> <<>>]
    ELSE LET tool_defs == MCPClient_get_tools(outcome) IN
         IF ~tool_defs.is_list THEN [raised |-> TRUE, value |-> <<>>]
         ELSE IF tool_defs.items = <<>> THEN [raised |-> FALSE, value |-> <<>>]
         ELSE ConvertTools(tool_defs.items, tool_defs.items[Len(tool_defs.items)])

\* A variant of get_all_tools that lets an exception of get_mcp_tools escape.
get_all_tools_uncaught(enabled, available, outcome) ==
    IF ~enabled THEN [raised |-> FALSE, value |-> get_builtin_tools]
    ELSE LET mcp_tools == get_mcp_tools(available, outcome) IN
         IF mcp_tools.raised THEN [raised |-> TRUE, value |-> <<>>]
         ELSE [raised |-> FALSE, value |-> get_builtin_tools \o mcp_tools.value]

\* get_all_tools: the built-in tools, extended by the provider's tools when
\* MCP_ENABLED; an exception on the way is caught and logged as a warning.
get_all_tools(enabled, available, outcome) ==
    IF ~enabled THEN [raised |-> FALSE, value |-> get_builtin_tools]
    ELSE LET mcp_tools == get_mcp_tools(available, outcome) IN
         IF mcp_tools.raised THEN [raised |-> FALSE, value |-> get_builtin_tools]
         ELSE [raised |-> FALSE, value |-> get_builtin_tools \o mcp_tools.value]

\* A variant of tools_map in which the first tool of a name is kept.
tools_map_first_wins(ts) ==
    [n \in {ts[i].name : i \in DOMAIN ts} |->
        ts[CHOOSE i \in DOMAIN ts : ts[i].name = n /\ \A j \in DOMAIN ts : ts[j].name = n => i <= j]]

\* tools_map = {tool.name: tool for tool in tools}: a later tool of a name replaces
\* an earlier one.
tools_map(ts) ==
    [n \in {ts[i].name : i \in DOMAIN ts} |->
        ts[CHOOSE i \in DOMAIN ts : ts[i].name = n /\ \A j \in DOMAIN ts : ts[j].name = n => j <= i]]

\* The tool names a model may ask for.
ToolNames == {"search", "calculate", "remote", "mcp_tool", "nosuch"}

\* The process starts with its configuration read and no agent created.
InitRegistry ==
    /\ AgentIdle
    /\ ConfigValid
    /\ MCP_ENABLED \in BOOLEAN
    /\ MCP_AVAILABLE \in BOOLEAN
    /\ reg_pc = "start"
    /\ provider = NotContacted
    /\ tools = <<>>
    /\ executed = <<>>
    /\ sessions = NoSessions

\* create_agent: tools = get_all_tools(). The provider is asked only when
\* MCP_ENABLED and the mcp package is there.
GetAllTools(outcome) ==
    /\ reg_pc = "start"
    /\ IF MCP_ENABLED /\ MCP_AVAILABLE
       THEN outcome \in ProviderOutcomes
       ELSE outcome = NotContacted
    /\ LET result == get_all_tools(MCP_ENABLED, MCP_AVAILABLE, outcome) IN
          /\ reg_pc' = IF result.raised THEN "raised" ELSE "ready"
          /\ tools' = result.value
    /\ provider' = outcome
    /\ UNCHANGED <<MCP_ENABLED, MCP_AVAILABLE, executed>>
    /\ UNCHANGED <<vars, config_vars, session_vars>>

\* call_tool for one tool call: the tool of that name in tools_map is invoked; a
\* name that is not in the map invokes nothing.
Lookup(tool_name) ==
    /\ reg_pc = "ready"
    /\ Len(executed) < MaxLookups
    /\ tool_name \in DOMAIN tools_map(tools)
    /\ executed' = Append(executed, [name |-> tool_name, func |-> tools_map(tools)[tool_name].func])
    /\ UNCHANGED <<MCP_ENABLED, MCP_AVAILABLE, reg_pc, provider, tools>>
    /\ UNCHANGED <<vars, config_vars, session_vars>>

NextRegistry ==
    \/ \E outcome \in ProviderOutcomes \cup {NotContacted} : GetAllTools(outcome)
    \/ \E tool_name \in ToolNames : Lookup(tool_name)

SpecRegistry == InitRegistry /\ [][NextRegistry]_<<vars, registry_vars, config_vars, session_vars>>

(***************************************************************************)
(* Two invocations of one compiled agent, each on a conversation of its    *)
(* own, with their graph steps interleaved.                                *)
(***************************************************************************)
MaxSessionBudget == 1   \* max_steps of an invocation is drawn from 0 .. MaxSessionBudget

Sessions == {1, 2}
SessionInputs == <<"What is 2+2?", "Read notes.txt">>
SessionHistories == << <<>>, <<SystemMessage("Be terse.")>> >>
SessionBudgets == 0 .. MaxSessionBudget

\* What the model does on one call: it answers with a shape, or the call raises.
Answers(shape) == [raises |-> FALSE, shape |-> shape]
ModelRaises == [raises |-> TRUE, shape |-> Shape(FALSE, <<>>)]
ModelOutcomes == {Answers(shape) : shape \in ResponseShapes} \cup {ModelRaises}

\* run_agent up to agent.invoke: the state of a new invocation. The fields after
\* max_steps are history: the list the run started with, what the model did on
\* each call, the lists it was handed, and the tool calls that were invoked.
StartSession(previous_messages, user_input, budget) ==
    [pc |-> "generate",
     messages |-> InitialMessages(previous_messages, user_input),
     step_count |-> 0,
     max_steps |-> budget,
     response |-> NotReturned,
     failure |-> "none",
     initial |-> InitialMessages(previous_messages, user_input),
     script |-> <<>>,
     llm_inputs |-> <<>>,
     invoked |-> <<>>]

\* The node generate_response on the state s of an invocation, the edge
\* should_continue after it and, on "end", the rest of run_agent.
GenerateNode(s, outcome) ==
    IF outcome.raises
    THEN [s EXCEPT !.pc = "error", !.failure = "model",
                   !.script = Append(@, outcome),
                   !.llm_inputs = Append(@, ModelInput(s.messages))]
    ELSE LET answer == ModelAnswer(outcome.shape, Len(s.messages) + 1)
             updated_messages == add_messages(s.messages, <<answer>>)
             sc == StepAfterGenerate(s.step_count)
             route == should_continue(updated_messages, sc, s.max_steps)
         IN [s EXCEPT !.messages = updated_messages,
                      !.step_count = sc,
                      !.pc = IF route = "call_tool" THEN "tool" ELSE "done",
                      !.response = IF route = "call_tool" THEN @
                                   ELSE ExtractResponse(updated_messages),
                      !.script = Append(@, outcome),
                      !.llm_inputs = Append(@, ModelInput(s.messages))]

\* The node call_tool on the state s of an invocation, and the edge to generate.
ToolNode(s) ==
    LET last_message == s.messages[Len(s.messages)]
        done == ExecuteToolCalls(last_message.tool_calls)
    IN IF done.raised
       THEN [s EXCEPT !.pc = "error", !.failure = "tool",
                      !.invoked = @ \o done.invoked]
       ELSE [s EXCEPT !.pc = "generate",
                      !.messages = add_messages(@, done.tool_messages),
                      !.step_count = StepAfterRound(@, last_message.tool_calls),
                      !.invoked = @ \o done.invoked]

\* A variant in which the step counter is one variable of the agent, shared by
\* its invocations.
StateAfterNode_shared_counter(ss, i, new) ==
    [j \in DOMAIN ss |-> IF j = i THEN new ELSE [ss[j] EXCEPT !.step_count = new.step_count]]

\* The states of the invocations after a node of invocation i returned new: the
\* state is the dict built by run_agent for that call of agent.invoke, and a
\* node's update goes into it alone.
StateAfterNode(ss, i, new) == [ss EXCEPT ![i] = new]

\* agent.invoke from state s to the end, alone, with the model doing what the
\* script says (up to the end of the script).
RECURSIVE RunAlone(_, _)
RunAlone(s, script) ==
    IF s.pc = "tool" THEN RunAlone(ToolNode(s), script)
    ELSE IF s.pc = "generate" /\ script # <<>>
         THEN RunAlone(GenerateNode(s, Head(script)), Tail(script))
    ELSE s

\* Two callers have called run_agent on the same agent.
InitTwoRuns ==
    /\ AgentIdle
    /\ ConfigValid
    /\ RegistryStatic
    /\ \E b1, b2 \in SessionBudgets :
           sessions = <<StartSession(SessionHistories[1], SessionInputs[1], b1),
                        StartSession(SessionHistories[2], SessionInputs[2], b2)>>

SessionGenerate(i, outcome) ==
    /\ sessions[i].pc = "generate"
    /\ sessions' = StateAfterNode(sessions, i, GenerateNode(sessions[i], outcome))
    /\ UNCHANGED <<vars, registry_vars, config_vars>>

SessionCallTool(i) ==
    /\ sessions[i].pc = "tool"
    /\ sessions' = StateAfterNode(sessions, i, ToolNode(sessions[i]))
    /\ UNCHANGED <<vars, registry_vars, config_vars>>

NextTwoRuns ==
    \/ \E i \in Sessions, outcome \in ModelOutcomes : SessionGenerate(i, outcome)
    \/ \E i \in Sessions : SessionCallTool(i)

SpecTwoRuns == InitTwoRuns /\ [][NextTwoRuns]_<<vars, registry_vars, config_vars, session_vars>>

(***************************************************************************)
(* The loop of the package core (core/graph.py), on the tool list ts that  *)
(* its create_agent got from get_all_tools.                                *)
(***************************************************************************)
\* get_system_prompt(tools): the head of the prompt and one line per tool.
RECURSIVE tool_descriptions(_)
tool_descriptions(ts) ==
    IF ts = <<>> THEN ""
    ELSE "- " \o Head(ts).name \o ": " \o Head(ts).description \o "; " \o tool_descriptions(Tail(ts))

get_system_prompt(ts) ==
    SYSTEM_PROMPT \o " Available tools: "
        \o (IF ts = <<>> THEN "No tools available." ELSE tool_descriptions(ts))

\* A variant of core_should_continue that allows one round more.
core_should_continue_strict(msgs, sc, ms) ==
    LET last_message == msgs[Len(msgs)] IN
    IF sc > ms THEN "end"
    ELSE IF last_message.type = "ai"
         THEN IF last_message.tool_calls # <<>> THEN "call_tool" ELSE "end"
         ELSE "end"

\* should_continue(state) of core/graph.py
core_should_continue(msgs, sc, ms) ==
    LET last_message == msgs[Len(msgs)] IN
    IF sc >= ms THEN "end"
    ELSE IF last_message.type = "ai"
         THEN IF last_message.tool_calls # <<>> THEN "call_tool" ELSE "end"
         ELSE "end"

\* tools_map[tool_name].invoke(tool_args): a built-in tool runs its function, a
\* provider tool returns the text of tool_func.
core_invoke(tool, tool_args) ==
    IF tool.func.origin = "builtin"
    THEN ToolInvoke(tool.func.reports, tool_args)
    ELSE IF tool_args = InvalidArgs THEN Raised("ValidationError")
    ELSE Returned("MCP tool " \o tool.func.reports \o " called with " \o tool_args)

\* The loop of call_tool of core/graph.py over last_message.tool_calls.
RECURSIVE core_ExecuteToolCalls(_, _)
core_ExecuteToolCalls(ts, tool_calls) ==
    IF tool_calls = <<>>
    THEN [tool_messages |-> <<>>, invoked |-> <<>>, raised |-> FALSE]
    ELSE LET tool_call == Head(tool_calls)
             rest == core_ExecuteToolCalls(ts, Tail(tool_calls))
         IN IF tool_call.name \in DOMAIN tools_map(ts)
            THEN LET result == core_invoke(tools_map(ts)[tool_call.name], tool_call.args) IN
                 IF result.raised
                 THEN [tool_messages |-> <<>>, invoked |-> <<tool_call>>, raised |-> TRUE]
                 ELSE [tool_messages |-> <<ToolMessage(result.value, tool_call.id)>>
                                            \o rest.tool_messages,
                       invoked |-> <<tool_call>> \o rest.invoked,
                       raised |-> rest.raised]
            ELSE rest

\* generate_response of core/graph.py: the list handed to llm_with_tools.invoke
core_ModelInput(ts, msgs) ==
    LET has_system == \E i \in DOMAIN msgs : msgs[i].type = "system" IN
    IF ~has_system THEN <<SystemMessage(get_system_prompt(ts))>> \o msgs ELSE msgs

\* run_agent of core/graph.py: the scan of reversed(updated_messages).
RECURSIVE core_ExtractResponse(_)
core_ExtractResponse(updated_messages) ==
    IF updated_messages = <<>> THEN "No response generated."
    ELSE LET message == updated_messages[Len(updated_messages)] IN
         IF message.type = "ai" /\ message.content # ""
         THEN message.content
         ELSE core_ExtractResponse(SubSeq(updated_messages, 1, Len(updated_messages) - 1))

\* run_agent of core/graph.py up to agent.invoke.
core_StartSession(previous_messages, user_input, budget) ==
    LET start == previous_messages \o <<HumanMessage(user_input)>> IN
    [pc |-> "generate",
     messages |-> start,
     step_count |-> 0,
     max_steps |-> budget,
     response |-> NotReturned,
     failure |-> "none",
     initial |-> start,
     script |-> <<>>,
     llm_inputs |-> <<>>,
     invoked |-> <<>>]

\* The node generate_response of core/graph.py, its edge should_continue and, on
\* "end", the rest of run_agent.
core_GenerateNode(ts, s, outcome) ==
    IF outcome.raises
    THEN [s EXCEPT !.pc = "error", !.failure = "model",
                   !.script = Append(@, outcome),
                   !.llm_inputs = Append(@, core_ModelInput(ts, s.messages))]
    ELSE LET answer == ModelAnswer(outcome.shape, Len(s.messages) + 1)
             updated_messages == add_messages(s.messages, <<answer>>)
             sc == s.step_count
             route == core_should_continue(updated_messages, sc, s.max_steps)
         IN [s EXCEPT !.messages = updated_messages,
                      !.step_count = sc,
                      !.pc = IF route = "call_tool" THEN "tool" ELSE "done",
                      !.response = IF route = "call_tool" THEN @
                                   ELSE core_ExtractResponse(updated_messages),
                      !.script = Append(@, outcome),
                      !.llm_inputs = Append(@, core_ModelInput(ts, s.messages))]

\* The node call_tool of core/graph.py, and the edge to generate.
core_ToolNode(ts, s) ==
    LET last_message == s.messages[Len(s.messages)]
        done == core_ExecuteToolCalls(ts, last_message.tool_calls)
    IN IF done.raised
       THEN [s EXCEPT !.pc = "error", !.failure = "tool",
                      !.invoked = @ \o done.invoked]
       ELSE [s EXCEPT !.pc = "generate",
                      !.messages = add_messages(@, done.tool_messages),
                      !.step_count = @ + 1,
                      !.invoked = @ \o done.invoked]

\* One graph step of an invocation of the agent of agentic/agent.py.
AgenticStep(s, outcome) ==
    IF s.pc = "generate" THEN GenerateNode(s, outcome)
    ELSE IF s.pc = "tool" THEN ToolNode(s)
    ELSE s

\* One graph step of an invocation of the agent of core/graph.py.
CoreStep(ts, s, outcome) ==
    IF s.pc = "generate" THEN core_GenerateNode(ts, s, outcome)
    ELSE IF s.pc = "tool" THEN core_ToolNode(ts, s)
    ELSE s

\* Both agents are created on the same tool set (the built-in tools, no provider)
\* and run_agent is called on each with the same history, input and budget:
\* sessions[1] is the invocation of agentic.agent, sessions[2] that of core.graph.
InitTwoImpls ==
    /\ AgentIdle
    /\ ConfigValid
    /\ MCP_ENABLED = FALSE
    /\ MCP_AVAILABLE = FALSE
    /\ reg_pc = "ready"
    /\ provider = NotContacted
    /\ tools = get_all_tools(FALSE, FALSE, NotContacted).value
    /\ executed = <<>>
    /\ \E p \in PriorHistories, u \in UserInputs, b \in Budgets :
           sessions = <<StartSession(p, u, b), core_StartSession(p, u, b)>>

\* Both invocations take their next graph step; a model call gets the same
\* outcome in both.
StepBoth(outcome) ==
    /\ \E i \in Sessions : sessions[i].pc \in {"generate", "tool"}
    /\ sessions' = <<AgenticStep(sessions[1], outcome), CoreStep(tools, sessions[2], outcome)>>
    /\ UNCHANGED <<vars, registry_vars, config_vars>>

NextTwoImpls == \E outcome \in ModelOutcomes : StepBoth(outcome)

SpecTwoImpls == InitTwoImpls /\ [][NextTwoImpls]_<<vars, registry_vars, config_vars, session_vars>>


(***************************************************************************)
(* Vocabulary of the claims.                                               *)
(***************************************************************************)
IsToolCallMessage(m) == m.type = "ai" /\ m.tool_calls # <<>>

\* The index of the run's own user message: the last HumanMessage of the list.
LastHuman(msgs) ==
    CHOOSE i \in DOMAIN msgs :
        /\ msgs[i].type = "human"
        /\ \A j \in DOMAIN msgs : msgs[j].type = "human" => j <= i

\* The tool rounds recorded in the list for the current run: the tool-call
\* messages of the run that were followed by a further model call.
RoundsIn(msgs) ==
    Cardinality({i \in (LastHuman(msgs) + 1) .. (Len(msgs) - 1) : IsToolCallMessage(msgs[i])})

\* The ToolMessages a list holds.
ToolResultsIn(msgs) == {j \in DOMAIN msgs : msgs[j].type = "tool"}

C2_ZeroBudgetNoModelCall ==
    (pc = "done" /\ max_steps = 0) => (modelCalls = 0 /\ response = NO_RESPONSE)

(***************************************************************************)
(* C2 amended. A run with max_steps = 0 issues exactly one model call (the *)
(* graph is entered at the model node), invokes no tool and performs no    *)
(* round; it stops right after that call, and its response is the sentinel *)
(* whenever no Assistant message of the returned sequence has text.        *)
(***************************************************************************)
C2_ZeroBudgetOneModelCall ==
    (pc # "idle" /\ max_steps = 0) =>
        /\ pc # "tool"
        /\ invoked = <<>>
        /\ rounds = 0
        /\ pc = "done" =>
              /\ modelCalls = 1
              /\ response # NotReturned
              /\ (\A i \in DOMAIN messages :
                      messages[i].type = "ai" => messages[i].content = "")
                     => response = NO_RESPONSE

\* A zero-budget run has returned the sentinel after its one model call, whose
\* answer asked for a tool and had no text; the tool was not invoked.
C2_Witness ==
    /\ pc = "done"
    /\ max_steps = 0
    /\ modelCalls = 1
    /\ IsToolCallMessage(messages[Len(messages)])
    /\ invoked = <<>>
    /\ response = NO_RESPONSE

(***************************************************************************)
(* C3. A tool is invoked only while step_count < max_steps: the graph is   *)
(* at the tool node only then, and every invocation on record was made     *)
(* then; tool calls answered by the model at or past the budget are left   *)
(* alone.                                                                  *)
(***************************************************************************)
C3_ToolsOnlyWithinBudget ==
    /\ pc = "tool" => step_count < max_steps
    /\ \A i \in DOMAIN invoked : invoked[i].step < invoked[i].budget
    /\ (pc = "done" /\ IsToolCallMessage(messages[Len(messages)])) =>
           /\ step_count >= max_steps
           /\ \A k \in DOMAIN messages[Len(messages)].tool_calls :
                  \A i \in DOMAIN invoked :
                      invoked[i].call.id # messages[Len(messages)].tool_calls[k].id

\* After one executed round the model asked for tools again with the budget used up.
C3_Witness ==
    /\ pc = "done"
    /\ invoked # <<>>
    /\ step_count = max_steps
    /\ IsToolCallMessage(messages[Len(messages)])


(***************************************************************************)
(* C4 as stated. A completed tool round appends one ToolMessage per        *)
(* request of the Assistant message, each carrying its request's           *)
(* identifier, whether or not the request's tool is registered.            *)
(***************************************************************************)
C4_EveryRequestAnswered ==
    /\ Len(lastRound.appended) = Len(lastRound.calls)
    /\ \A k \in DOMAIN lastRound.calls :
           \E a \in DOMAIN lastRound.appended :
               lastRound.appended[a].tool_call_id = lastRound.calls[k].id

(***************************************************************************)
(* C5 as stated. A tool invocation that raises does not leave the round:   *)
(* no run ends by a tool's exception, and once the round is over every     *)
(* request whose tool was invoked has its ToolMessage in the conversation. *)
(***************************************************************************)
C5_ToolFailureStaysInRound ==
    pc # "tool" =>
        /\ failure # "tool"
        /\ \A i \in DOMAIN invoked :
               \E j \in ToolResultsIn(messages) :
                   messages[j].tool_call_id = invoked[i].call.id

(***************************************************************************)
(* C6 as stated. In the list handed to any model call, every request of    *)
(* every Assistant message is followed by a ToolMessage with its           *)
(* identifier.                                                             *)
(***************************************************************************)
Answered(msgs, i) ==
    \A k \in DOMAIN msgs[i].tool_calls :
        \E j \in (i + 1) .. Len(msgs) :
            msgs[j].type = "tool" /\ msgs[j].tool_call_id = msgs[i].tool_calls[k].id

C6_ModelSeesOnlyAnsweredRequests ==
    \A i \in DOMAIN llm_input : llm_input[i].type = "ai" => Answered(llm_input, i)

(***************************************************************************)
(* C7. Every ToolMessage of the conversation (hence of the returned        *)
(* sequence) answers exactly one earlier request, the one with its         *)
(* identifier, no two ToolMessages carry the same identifier, and the      *)
(* ToolMessages of one round answer requests of that round's Assistant     *)
(* message, each at most once.                                             *)
(***************************************************************************)
RequestsBefore(msgs, j) ==
    UNION { { <<i, k>> : k \in { k \in DOMAIN msgs[i].tool_calls :
                                    msgs[i].tool_calls[k].id = msgs[j].tool_call_id } }
            : i \in { i \in 1 .. (j - 1) : msgs[i].type = "ai" } }

C7_ToolResultPairing ==
    /\ \A j \in ToolResultsIn(messages) : Cardinality(RequestsBefore(messages, j)) = 1
    /\ \A j1, j2 \in ToolResultsIn(messages) :
           messages[j1].tool_call_id = messages[j2].tool_call_id => j1 = j2
    /\ \A a \in DOMAIN lastRound.appended :
           /\ \E k \in DOMAIN lastRound.calls :
                  lastRound.calls[k].id = lastRound.appended[a].tool_call_id
           /\ \A b \in DOMAIN lastRound.appended :
                  lastRound.appended[a].tool_call_id = lastRound.appended[b].tool_call_id
                      => a = b

\* A returned sequence that holds the two ToolMessages of a two-request round.
C7_Witness ==
    /\ pc = "done"
    /\ Len(lastRound.appended) = 2
    /\ Cardinality(ToolResultsIn(messages)) >= 2

(***************************************************************************)
(* C8 as stated. The response is the content of the last Assistant message *)
(* that has text and no unanswered tool call, and the sentinel when there  *)
(* is none.                                                                *)
(***************************************************************************)
FinalTexts(msgs) ==
    { i \in DOMAIN msgs : msgs[i].type = "ai" /\ msgs[i].content # "" /\ Answered(msgs, i) }

Latest(S) == CHOOSE i \in S : \A j \in S : j <= i

C8_ResponseIsLastResolvedText ==
    pc = "done" =>
        response = IF FinalTexts(messages) = {} THEN NO_RESPONSE
                   ELSE messages[Latest(FinalTexts(messages))].content

(***************************************************************************)
(* C9 as stated. Whenever the model's answer has neither text nor tool     *)
(* calls the run is over at once, and its response is the sentinel.        *)
(***************************************************************************)
IsEmptyAnswer(m) == m.type = "ai" /\ m.content = "" /\ m.tool_calls = <<>>

C9_EmptyAnswerGivesSentinel ==
    (messages # <<>> /\ IsEmptyAnswer(messages[Len(messages)])) =>
        (pc = "done" /\ response = NO_RESPONSE)

(***************************************************************************)
(* C10. The step counter equals the number of tool rounds the run has      *)
(* completed, whatever the number of requests in each round; a model call  *)
(* leaves it as it is.                                                     *)
(***************************************************************************)
C10_StepCountsRounds == step_count = rounds

\* Two rounds are over, the last one with two requests, and the counter is 2.
C10_Witness ==
    /\ rounds = 2
    /\ step_count = 2
    /\ Len(lastRound.calls) = 2
    /\ modelCalls >= 2


(***************************************************************************)
(* C11. Model calls and tool rounds alternate strictly: at the model node  *)
(* as many rounds as model calls are over, and everywhere else exactly one *)
(* model call more; the list handed to a model call that follows a round   *)
(* ends with the round's Assistant message followed by every ToolMessage   *)
(* the round appended, in the order appended.                              *)
(***************************************************************************)
Suffix(seq, n) == SubSeq(seq, Len(seq) - n + 1, Len(seq))

C11_StrictAlternation ==
    pc # "idle" =>
        /\ pc = "generate" => modelCalls = rounds
        /\ pc # "generate" => modelCalls = rounds + 1
        /\ (rounds >= 1 /\ modelCalls = rounds + 1) =>
               LET n == Len(lastRound.appended) IN
               /\ Len(llm_input) > n
               /\ Suffix(llm_input, n) = lastRound.appended
               /\ llm_input[Len(llm_input) - n].tool_calls = lastRound.calls
               /\ Len(llm_input) >= lastRound.before + n

\* The model has been called again after a round that appended two ToolMessages.
C11_Witness ==
    /\ rounds = 1
    /\ modelCalls = 2
    /\ Len(lastRound.appended) = 2
    /\ Suffix(llm_input, 2) = lastRound.appended


(***************************************************************************)
(* C12 as stated. In a completed round the i-th ToolMessage appended       *)
(* answers the i-th request of the Assistant message, and the tools were   *)
(* invoked in the order of the requests.                                   *)
(***************************************************************************)
\* The invocations on record for the requests of the last completed round.
InvokedInLastRound ==
    SelectSeq(invoked, LAMBDA v : \E k \in DOMAIN lastRound.calls :
                                      lastRound.calls[k].id = v.call.id)

C12_ResultsInRequestOrder ==
    /\ \A a \in DOMAIN lastRound.appended :
           lastRound.appended[a].tool_call_id = lastRound.calls[a].id
    /\ \A i \in DOMAIN InvokedInLastRound :
           InvokedInLastRound[i].call = lastRound.calls[i]


(***************************************************************************)
(* C13. In a run whose conversation holds no SystemMessage, every model    *)
(* call receives the system prompt followed by the conversation as it then *)
(* stood: the prompt is first and is the only SystemMessage of the list,   *)
(* in the first round and in later ones.  In a run whose conversation      *)
(* holds a SystemMessage, every model call receives the conversation as it *)
(* stood, with no prompt injected.                                         *)
(***************************************************************************)
SystemsIn(msgs) == {i \in DOMAIN msgs : msgs[i].type = "system"}

IsPrefixOf(a, b) == Len(a) <= Len(b) /\ SubSeq(b, 1, Len(a)) = a

C13_PromptInjectedOncePerCall ==
    modelCalls >= 1 =>
        IF SystemsIn(messages) = {}
        THEN /\ llm_input[1] = SystemMessage(SYSTEM_PROMPT)
             /\ SystemsIn(llm_input) = {1}
             /\ IsPrefixOf(Tail(llm_input), messages)
        ELSE /\ IsPrefixOf(llm_input, messages)
             /\ \A i \in DOMAIN llm_input : llm_input[i] # SystemMessage(SYSTEM_PROMPT)

\* The second model call of a run without SystemMessage, after a tool round.
C13_Witness ==
    /\ modelCalls = 2
    /\ rounds = 1
    /\ SystemsIn(messages) = {}
    /\ llm_input[1] = SystemMessage(SYSTEM_PROMPT)
    /\ Len(llm_input) >= 3

(***************************************************************************)
(* C14. A conversation that begins with a SystemMessage keeps exactly one  *)
(* SystemMessage through a run and through a second run seeded with the    *)
(* sequence the first returned: in the conversation, hence in what is      *)
(* returned, and in every list handed to the model.                        *)
(***************************************************************************)
C14_OneSystemMessageAcrossRuns ==
    (messages # <<>> /\ messages[1].type = "system") =>
        /\ SystemsIn(messages) = {1}
        /\ modelCalls >= 1 => SystemsIn(llm_input) = {1}

\* The second run, seeded with what the first returned, has returned too.
C14_Witness ==
    /\ runs = 2
    /\ pc = "done"
    /\ messages[1].type = "system"
    /\ Cardinality({i \in DOMAIN messages : messages[i].type = "human"}) = 2
    /\ SystemsIn(llm_input) = {1}


(***************************************************************************)
(* C15 as stated. A run with empty prior history and a budget of at least  *)
(* one, whose model first asks for one tool call and then answers with     *)
(* text T, returns T and the four messages User, Assistant with the tool   *)
(* call, ToolResult for that call, Assistant with T.                       *)
(***************************************************************************)
C15_OneToolCallScenario ==
    LET last == messages[Len(messages)] IN
    ( /\ pc = "done"
      /\ max_steps >= 1
      /\ modelCalls = 2
      /\ {i \in DOMAIN messages : messages[i].type = "human"} = {1}
      /\ Len(messages[2].tool_calls) = 1
      /\ last.type = "ai" /\ last.content # "" /\ last.tool_calls = <<>> )
    => /\ response = last.content
       /\ Len(messages) = 4
       /\ [i \in 1 .. 4 |-> messages[i].type] = <<"human", "ai", "tool", "ai">>
       /\ messages[3].tool_call_id = messages[2].tool_calls[1].id


(***************************************************************************)
(* C16. The conversation is append-only.  A step that starts a run sets    *)
(* the conversation to the supplied prior messages followed by the new     *)
(* user message and the step counter to 0, whatever the counter was; every *)
(* other step leaves the conversation as a prefix of what it becomes, so   *)
(* the starting sequence is a prefix of every later state of the run, the  *)
(* returned sequence included.                                             *)
(***************************************************************************)
C16_AppendOnly ==
    [][ IF runs' # runs
        THEN /\ step_count' = 0
             /\ \E p \in Seeds, u \in UserInputs : messages' = p \o <<HumanMessage(u)>>
        ELSE IsPrefixOf(messages, messages') ]_vars

\* A second run has just started, with counter 0, on the sequence returned by a
\* run that had completed a tool round.
C16_Witness ==
    /\ runs = 2
    /\ pc = "generate"
    /\ modelCalls = 0
    /\ step_count = 0
    /\ \E i \in 1 .. (Len(messages) - 2) :
           IsToolCallMessage(messages[i]) /\ messages[i + 1].type = "ai"


(***************************************************************************)
(* C17. A model call that fails reaches the caller of the run as an error: *)
(* the step on which it fails appends no answer, invokes no tool and       *)
(* returns no response, and the caller prints the error and is back at its *)
(* prompt; from then on nothing happens in that run (no further model      *)
(* call, no tool round): the only steps are a new run and the caller       *)
(* leaving at its prompt.                                                  *)
(***************************************************************************)
C17_ModelFailureSurfaces ==
    [][ /\ (failure' = "model" /\ pc = "generate") =>
               /\ pc' = "error"
               /\ response' = NotReturned
               /\ messages' = messages
               /\ invoked' = invoked
               /\ rounds' = rounds
               /\ shell' = "prompt"
               /\ printed' = "error"
        /\ failure = "model" =>
               \/ runs' = runs + 1 /\ modelCalls' = 0 /\ shell' = "turn"
               \/ shell' = "exited" /\ modelCalls' = modelCalls /\ invoked' = invoked
      ]_vars

\* The second model call of a run fails after one tool round: the run has ended in
\* an error and the caller, having printed it, is back at its prompt.
C17_Witness ==
    /\ runs = 1
    /\ failure = "model"
    /\ pc = "error"
    /\ shell = "prompt"
    /\ printed = "error"
    /\ modelCalls = 2


(***************************************************************************)
(* C18. The tool list built from the built-in tools and the provider's     *)
(* tools never holds two tools of the same name.                           *)
(***************************************************************************)
C18_UniqueToolNames ==
    reg_pc = "ready" =>
        \A i, j \in DOMAIN tools : tools[i].name = tools[j].name => i = j

\* The index of the tool of name n that was registered last.
LastRegistered(n) ==
    CHOOSE i \in DOMAIN tools : tools[i].name = n /\ \A j \in DOMAIN tools : tools[j].name = n => j <= i

(***************************************************************************)
(* C19. Lookup by name is deterministic: every invocation of a name        *)
(* executes the implementation of the tool registered last under that      *)
(* name, so two invocations of one name execute the same implementation.   *)
(***************************************************************************)
C19_LastRegisteredWins ==
    \A i \in DOMAIN executed :
        /\ \E k \in DOMAIN tools : tools[k].name = executed[i].name
        /\ executed[i].func = tools[LastRegistered(executed[i].name)].func
        /\ \A j \in DOMAIN executed :
               executed[j].name = executed[i].name => executed[j].func = executed[i].func

\* "search" is registered twice with different implementations (built in, and by
\* the provider) and has been invoked twice: the provider's ran both times.
C19_Witness ==
    /\ Len(executed) = 2
    /\ executed[1].name = "search" /\ executed[2].name = "search"
    /\ \E a, b \in DOMAIN tools :
           a < b /\ tools[a].name = "search" /\ tools[b].name = "search" /\ tools[a].func # tools[b].func
    /\ executed[1].func.origin = "mcp"
    /\ executed[2].func = executed[1].func

\* The provider did not deliver a list of descriptors.
ProviderFails ==
    \/ ~MCP_AVAILABLE
    \/ provider.health # "200"
    \/ provider.status # "200"
    \/ ~provider.body.is_list
    \/ \E k \in DOMAIN provider.body.items : ~provider.body.items[k].is_dict

\* The names of the descriptors a tool can be made of, in the provider's order.
ProvidedNames ==
    LET usable == SelectSeq(provider.body.items, LAMBDA d : d.name # Null) IN
    [k \in DOMAIN usable |-> IF usable[k].name = Absent THEN "mcp_tool" ELSE usable[k].name]

(***************************************************************************)
(* C20. Building the registry never raises. With the provider enabled and  *)
(* unavailable or failing (no mcp package, failed health check, non-200,   *)
(* exception or timeout on GET /tools, an answer that is no list of        *)
(* descriptors) the result is exactly the built-in tools; when the         *)
(* provider works, the built-in tools come first, in their order, followed *)
(* by the provider's tools in the provider's order.                        *)
(***************************************************************************)
C20_ProviderFailureFallsBack ==
    reg_pc # "start" =>
        /\ reg_pc = "ready"
        /\ IsPrefixOf(get_builtin_tools, tools)
        /\ (MCP_ENABLED /\ ProviderFails) => tools = get_builtin_tools
        /\ (MCP_ENABLED /\ ~ProviderFails) =>
               LET rest == SubSeq(tools, Len(get_builtin_tools) + 1, Len(tools)) IN
               /\ Len(rest) = Len(ProvidedNames)
               /\ \A k \in DOMAIN rest : rest[k].name = ProvidedNames[k] /\ rest[k].func.origin = "mcp"

\* GET /tools timed out after a good health check: the built-in tools alone.
C20_Witness ==
    /\ reg_pc = "ready"
    /\ MCP_ENABLED /\ MCP_AVAILABLE
    /\ provider.health = "200"
    /\ provider.status = "timeout"
    /\ tools = get_builtin_tools


Max(a, b) == IF a >= b THEN a ELSE b

\* step_count is within the budget of the run.
StepCountInRange == 0 <= step_count /\ step_count <= Max(0, max_steps)

(***************************************************************************)
(* C23. In every state of a run 0 <= step_count <= max(0, max_steps), for  *)
(* every budget the caller passes (zero and negative ones included), and   *)
(* no step of a run decreases step_count.                                  *)
(***************************************************************************)
C23_StepCountInRange ==
    [][ /\ StepCountInRange
        /\ StepCountInRange'
        /\ runs' = runs => step_count' >= step_count ]_vars

\* A run has ended with its whole budget of 2 used: the counter is at the bound.
C23_Witness ==
    /\ pc = "done"
    /\ max_steps = 2
    /\ step_count = 2

(***************************************************************************)
(* C24. A run ends normally only on a step that is a model call; it has    *)
(* then issued exactly (completed tool rounds + 1) model calls, at least   *)
(* one and at most max(0, max_steps) + 1, and the last message of the      *)
(* returned sequence is an Assistant message.                              *)
(***************************************************************************)
C24_EndsAfterModelCall ==
    [][ (pc # "done" /\ pc' = "done") =>
            /\ pc = "generate"
            /\ modelCalls' = modelCalls + 1
            /\ rounds' = rounds
            /\ modelCalls' = rounds' + 1
            /\ modelCalls' >= 1
            /\ modelCalls' <= Max(0, max_steps') + 1
            /\ response' # NotReturned
            /\ messages'[Len(messages')].type = "ai" ]_vars

\* A run with budget 1 has ended after one tool round and two model calls, its
\* last message an Assistant message that still asks for tools.
C24_Witness ==
    /\ pc = "done"
    /\ max_steps = 1
    /\ rounds = 1
    /\ modelCalls = 2
    /\ IsToolCallMessage(messages[Len(messages)])

\* The System messages of a sequence, in order.
SystemSeq(msgs) == SelectSeq(msgs, LAMBDA m : m.type = "system")

(***************************************************************************)
(* C25. The injected system prompt is only in the list handed to the       *)
(* model: a run starts with exactly the System messages of the history the *)
(* caller passed, no step of the run adds or removes one (a model call on  *)
(* a conversation without one hands the model the prompt first and stores  *)
(* none), so the returned sequence holds exactly the caller's System       *)
(* messages.                                                               *)
(***************************************************************************)
C25_PromptNeverStored ==
    [][ /\ runs' # runs => \E p \in Seeds : SystemSeq(messages') = SystemSeq(p)
        /\ runs' = runs => SystemSeq(messages') = SystemSeq(messages)
        /\ (runs' = runs /\ modelCalls' # modelCalls /\ SystemSeq(messages) = <<>>) =>
               /\ llm_input'[1] = SystemMessage(SYSTEM_PROMPT)
               /\ Tail(llm_input') = messages
               /\ SystemSeq(messages') = <<>> ]_vars

\* A run on a history without System message has returned after two model calls,
\* each of which was handed the prompt: the returned sequence has none.
C25_Witness ==
    /\ pc = "done"
    /\ modelCalls = 2
    /\ llm_input[1] = SystemMessage(SYSTEM_PROMPT)
    /\ SystemSeq(messages) = <<>>
    /\ response # NO_RESPONSE


\* The configuration for which the startup has to fail.
ConfigInvalid ==
    \/ LLM_TYPE \in {"gpt", "openai"} /\ OPENAI_API_KEY = ""
    \/ LLM_TYPE = "gemini" /\ GOOGLE_API_KEY = ""
    \/ LLM_TYPE \notin {"gpt", "openai", "gemini"}

(***************************************************************************)
(* C21. Startup validation fails exactly when LLM_TYPE is gpt or openai    *)
(* with an empty OPENAI_API_KEY, or gemini with an empty GOOGLE_API_KEY,   *)
(* or none of the three. On failure the process has printed the            *)
(* configuration error and exited with status 1, no agent was created and  *)
(* no model was called; otherwise validation raised nothing.               *)
(***************************************************************************)
C21_StartupValidation ==
    shell # "starting" =>
        /\ (config_error # "none") <=> ConfigInvalid
        /\ config_error # "none" =>
               /\ shell = "exited"
               /\ exit_code # 0
               /\ printed = "Configuration error"
               /\ pc = "unstarted"
               /\ modelCalls = 0
               /\ runs = 0
        /\ (config_error = "none" /\ ~create_llm_raises(LLM_TYPE, genai_installed)) =>
               /\ pc = "idle"
               /\ exit_code = 0

\* LLM_TYPE (Gemini in the environment) is gemini and GOOGLE_API_KEY is empty, while
\* OPENAI_API_KEY is set:
\* the process has exited with the configuration error.
C21_Witness ==
    /\ shell = "exited"
    /\ environ.LLM_TYPE = "Gemini"
    /\ LLM_TYPE = "gemini"
    /\ GOOGLE_API_KEY = ""
    /\ OPENAI_API_KEY # ""
    /\ config_error = "GOOGLE_API_KEY required"
    /\ exit_code = 1


\* The state in which an invocation started, from its history fields.
StartOf(s) ==
    [s EXCEPT !.pc = "generate", !.messages = s.initial, !.step_count = 0,
              !.response = NotReturned, !.failure = "none",
              !.script = <<>>, !.llm_inputs = <<>>, !.invoked = <<>>]

SameUpToPrompt(a, b) ==
    \/ a = b
    \/ /\ a # <<>> /\ b # <<>>
       /\ a[1] = SystemMessage(SYSTEM_PROMPT)
       /\ b[1] = SystemMessage(get_system_prompt(tools))
       /\ Tail(a) = Tail(b)

(***************************************************************************)
(* C26. The loops of agentic.agent and core.graph, on the same tool set    *)
(* and given the same history, input, max_steps and model responses, are   *)
(* at the same node after every step, have made the same model calls (the  *)
(* lists handed to the model differ only in the text of the injected       *)
(* prompt) and the same tool invocations, and hold the same message        *)
(* sequence, step count and response.                                      *)
(***************************************************************************)
C26_ImplementationsEquivalent ==
    sessions # NoSessions =>
        LET a == sessions[1]
            c == sessions[2]
        IN /\ a.pc = c.pc
           /\ a.messages = c.messages
           /\ a.step_count = c.step_count
           /\ a.response = c.response
           /\ a.failure = c.failure
           /\ a.invoked = c.invoked
           /\ a.script = c.script
           /\ Len(a.llm_inputs) = Len(c.llm_inputs)
           /\ \A k \in DOMAIN a.llm_inputs : SameUpToPrompt(a.llm_inputs[k], c.llm_inputs[k])

\* Both loops have returned after two tool rounds and three model calls, the
\* first of which got different prompts, with a tool invoked.
C26_Witness ==
    /\ sessions # NoSessions
    /\ sessions[1].pc = "done" /\ sessions[2].pc = "done"
    /\ sessions[2].step_count = 2
    /\ Len(sessions[2].llm_inputs) = 3
    /\ sessions[1].llm_inputs[1] # sessions[2].llm_inputs[1]
    /\ sessions[2].invoked # <<>>
    /\ sessions[2].response # NO_RESPONSE

====
